---- MODULE Spec2Model ----
(***************************************************************************)
(* Model of the C core of the Anywhere network extension:                  *)
(*   Crypto/CTLSKeyDerivation.c  (cipher-suite parameter resolution),      *)
(*   Packet/CPacket.c            (TLS record helpers, ServerHello parser,  *)
(*                                DNS query parser and response builder).  *)
(* Every routine is a reentrant function over caller-owned buffers, so a   *)
(* behaviour is one call: the initial state holds the arguments, the call  *)
(* action runs the routine to its return and stores what it produced.      *)
(* Buffers are 0-indexed as in the C source; a TLA+ sequence d holds byte  *)
(* i of the buffer at d[i + 1].                                            *)
(***************************************************************************)
EXTENDS Integers, Sequences, FiniteSets, TLC

VARIABLES
    fn,       \* the routine being called
    shape,    \* how the caller built the arguments (scalars, and the layout of data)
    data,     \* the input byte buffer; its supplied length is Len(data)
    beyond,   \* the byte a read past the end of data would happen to see
    ret,      \* what the routine returned and wrote through its out-pointers
    pc        \* "call" before the routine runs, "done" after it has returned

vars == <<fn, shape, data, beyond, ret, pc>>

\* ------------------------------------------------------------------ bytes

Pending == [rc |-> "pending"]

\* An out-parameter or output byte the routine has not written.
Unset == 0 - 1

Max(a, b) == IF a >= b THEN a ELSE b

\* The greatest index read so far joined with a read of n bytes at offset i.
Touch(hi, i, n) == IF n > 0 THEN Max(hi, i + n - 1) ELSE hi

\* data[i]: a read at or past the supplied length sees whatever lies there.
At(d, i) == IF i >= 0 /\ i < Len(d) THEN d[i + 1] ELSE beyond

\* ((uint16_t)data[i] << 8) | data[i + 1]
U16(d, i) == At(d, i) * 256 + At(d, i + 1)

\* The n bytes data[i .. i+n-1], as memcpy reads them.
Slice(d, i, n) == [k \in 1..n |-> At(d, i + k - 1)]

U16BE(n) == <<(n \div 256) % 256, n % 256>>

Fill(b, n) == [k \in 1..n |-> b]

\* n bytes counting up from b: every position differs from its neighbours.
Ramp(b, n) == [k \in 1..n |-> (b + k - 1) % 256]

RECURSIVE Concat(_)
Concat(ss) == IF ss = <<>> THEN <<>> ELSE Head(ss) \o Concat(Tail(ss))

RECURSIVE SeqsUpTo(_, _)
SeqsUpTo(S, n) ==
    IF n = 0 THEN {<<>>}
    ELSE LET shorter == SeqsUpTo(S, n - 1)
         IN  shorter \cup {Append(s, x) : s \in {t \in shorter : Len(t) = n - 1}, x \in S}

\* The bytes a stray read may see (undefined behaviour: any value).
BeyondBytes == {0, 255}

\* ------------------------------------------- CTLSKeyDerivation.c: suites

TLS_AES_128_GCM_SHA256 == 4865
TLS_AES_256_GCM_SHA384 == 4866
CC_SHA256_DIGEST_LENGTH == 32
CC_SHA384_DIGEST_LENGTH == 48
UINT16_MAX == 65535

\* get_suite_params with the two branches exchanged.
get_suite_params_swapped(cs) ==
    IF cs = TLS_AES_256_GCM_SHA384
    THEN [alg |-> "kCCHmacAlgSHA256", hash_len |-> CC_SHA256_DIGEST_LENGTH, key_len |-> 16]
    ELSE [alg |-> "kCCHmacAlgSHA384", hash_len |-> CC_SHA384_DIGEST_LENGTH, key_len |-> 32]

get_suite_params(cs) ==
    IF cs = TLS_AES_256_GCM_SHA384
    THEN [alg |-> "kCCHmacAlgSHA384", hash_len |-> CC_SHA384_DIGEST_LENGTH, key_len |-> 32]
    ELSE [alg |-> "kCCHmacAlgSHA256", hash_len |-> CC_SHA256_DIGEST_LENGTH, key_len |-> 16]

\* The digest routine sha_hash hands the data to.
sha_hash(cs) ==
    IF cs = TLS_AES_256_GCM_SHA384 THEN "CC_SHA384" ELSE "CC_SHA256"

InitSuite ==
    /\ fn \in {"get_suite_params", "sha_hash"}
    /\ shape \in [cs : 0..UINT16_MAX]
    /\ data = <<>>
    /\ beyond = 0
    /\ ret = Pending
    /\ pc = "call"

CallGetSuiteParams ==
    /\ pc = "call"
    /\ fn = "get_suite_params"
    /\ ret' = get_suite_params(shape.cs)
    /\ pc' = "done"
    /\ UNCHANGED <<fn, shape, data, beyond>>

CallShaHash ==
    /\ pc = "call"
    /\ fn = "sha_hash"
    /\ ret' = [hash |-> sha_hash(shape.cs)]
    /\ pc' = "done"
    /\ UNCHANGED <<fn, shape, data, beyond>>

NextSuite == CallGetSuiteParams \/ CallShaHash

SpecSuite == InitSuite /\ [][NextSuite]_vars

\* C1 as stated: 0x1301 resolves to SHA-256 with hash length 32 and key length 16,
\* and every other identifier, 0x1302 included, to SHA-384 with hash length 48 and
\* key length 32, in get_suite_params and in the digest sha_hash picks.
C1_AsStated ==
    pc = "done" =>
        /\ fn = "get_suite_params" =>
               ret = IF shape.cs = TLS_AES_128_GCM_SHA256
                     THEN [alg |-> "kCCHmacAlgSHA256", hash_len |-> 32, key_len |-> 16]
                     ELSE [alg |-> "kCCHmacAlgSHA384", hash_len |-> 48, key_len |-> 32]
        /\ fn = "sha_hash" =>
               ret.hash = IF shape.cs = TLS_AES_128_GCM_SHA256 THEN "CC_SHA256" ELSE "CC_SHA384"

\* C1 amended: 0x1302 resolves to SHA-384 with hash length 48 and key length 32,
\* and every other 16-bit identifier, 0x1301 included, to SHA-256 with hash length
\* 32 and key length 16; sha_hash picks SHA-384 for 0x1302 and SHA-256 otherwise.
C1_SuiteParams ==
    pc = "done" =>
        /\ fn = "get_suite_params" /\ shape.cs = 4866 =>
               ret.alg = "kCCHmacAlgSHA384" /\ ret.hash_len = 48 /\ ret.key_len = 32
        /\ fn = "get_suite_params" /\ shape.cs # 4866 =>
               ret.alg = "kCCHmacAlgSHA256" /\ ret.hash_len = 32 /\ ret.key_len = 16
        /\ fn = "sha_hash" => (ret.hash = "CC_SHA384" <=> shape.cs = 4866)
        /\ fn = "sha_hash" => (ret.hash = "CC_SHA256" <=> shape.cs # 4866)

\* An identifier that is neither 0x1301 nor 0x1302 has been resolved.
C1_Witness ==
    /\ pc = "done"
    /\ fn = "get_suite_params"
    /\ shape.cs \notin {4865, 4866}
    /\ ret.hash_len = 32

\* ------------------------------------------- CPacket.c: inner plaintext

\* Greatest raw buffer length, content patterns and padding tried for the unwrap.
MaxUnwrapLen == 8
MaxPad == 8

\* while (i >= 0 && data[i] == 0) i--;
RECURSIVE ScanBack(_, _)
ScanBack(d, i) == IF i >= 0 /\ At(d, i) = 0 THEN ScanBack(d, i - 1) ELSE i

\* find_tls13_content_end whose fast path trusts the last byte without testing it.
find_tls13_content_end_blind(d) ==
    LET length == Len(d)
        i      == ScanBack(d, length - 1)
    IN  IF length = 0 THEN [rc |-> -1, type |-> Unset, hi |-> -1]
        ELSE IF length >= 8
        THEN [rc |-> length - 1, type |-> At(d, length - 1), hi |-> length - 1]
        ELSE IF i < 0 THEN [rc |-> -1, type |-> Unset, hi |-> length - 1]
        ELSE [rc |-> i, type |-> At(d, i), hi |-> length - 1]

\* rc: the returned index; type: *outContentType; hi: the greatest index read.
find_tls13_content_end(d) ==
    LET length == Len(d)
        i      == ScanBack(d, length - 1)
    IN  IF length = 0 THEN [rc |-> -1, type |-> Unset, hi |-> -1]
        ELSE IF length >= 8 /\ At(d, length - 1) # 0
        THEN [rc |-> length - 1, type |-> At(d, length - 1), hi |-> length - 1]
        ELSE IF i < 0 THEN [rc |-> -1, type |-> Unset, hi |-> length - 1]
        ELSE [rc |-> i, type |-> At(d, i), hi |-> length - 1]

tls13_unwrap_content(d) ==
    IF Len(d) = 0 THEN [rc |-> -1, type |-> Unset, hi |-> -1]
    ELSE LET end == find_tls13_content_end(d)
         IN  IF end.rc < 0 THEN [rc |-> -1, type |-> end.type, hi |-> end.hi]
             ELSE [rc |-> end.rc, type |-> end.type, hi |-> end.hi]

UnwrapBytes == {0, 1, 255}
UnwrapContents == {<<>>, <<0>>, <<9, 0>>, Ramp(1, 7), Fill(0, 8)}

\* content || type || zeros
InnerPlaintext(s) == s.content \o <<s.type>> \o Fill(0, s.pad)

InitUnwrap ==
    /\ \/ /\ fn \in {"find_tls13_content_end", "tls13_unwrap_content"}
          /\ shape = [kind |-> "raw"]
          /\ data \in SeqsUpTo(UnwrapBytes, MaxUnwrapLen)
       \/ /\ fn = "tls13_unwrap_content"
          /\ shape \in [kind : {"wrapped"}, content : UnwrapContents,
                        type : 1..255, pad : 0..MaxPad]
          /\ data = InnerPlaintext(shape)
    /\ beyond \in BeyondBytes
    /\ ret = Pending
    /\ pc = "call"

CallFindTls13ContentEnd ==
    /\ pc = "call"
    /\ fn = "find_tls13_content_end"
    /\ ret' = find_tls13_content_end(data)
    /\ pc' = "done"
    /\ UNCHANGED <<fn, shape, data, beyond>>

CallTls13UnwrapContent ==
    /\ pc = "call"
    /\ fn = "tls13_unwrap_content"
    /\ ret' = tls13_unwrap_content(data)
    /\ pc' = "done"
    /\ UNCHANGED <<fn, shape, data, beyond>>

NextUnwrap == CallFindTls13ContentEnd \/ CallTls13UnwrapContent

SpecUnwrap == InitUnwrap /\ [][NextUnwrap]_vars

AllZero(d) == \A k \in 1..Len(d) : d[k] = 0

\* The 0-based index of the last non-zero byte of a buffer that has one.
LastNonZero(d) ==
    (CHOOSE k \in 1..Len(d) : d[k] # 0 /\ \A j \in (k + 1)..Len(d) : d[j] = 0) - 1

\* C8: tls13_unwrap_content returns -1 exactly when the buffer is empty or all
\* zero; otherwise it returns the index of the last non-zero byte and stores that
\* byte as the content type, whether or not the fast path (length >= 8, last byte
\* non-zero) was taken; so content || type || zeros gives (len(content), type).
C8_Unwrap ==
    pc = "done" /\ fn = "tls13_unwrap_content" =>
        /\ ret.rc = -1 <=> AllZero(data)
        /\ ret.rc # -1 => ret.rc = LastNonZero(data) /\ ret.type = data[ret.rc + 1]
        /\ ret.rc = ScanBack(data, Len(data) - 1)
        /\ shape.kind = "wrapped" => ret.rc = Len(shape.content) /\ ret.type = shape.type

\* The fast path ran on a padded-free record, and the scan ran on a padded one.
C8_Witness ==
    /\ pc = "done"
    /\ fn = "tls13_unwrap_content"
    /\ shape.kind = "wrapped"
    /\ Len(data) >= 8
    /\ shape.pad = 0
    /\ ret.rc = Len(data) - 1
    /\ ret.type = 255

\* ------------------------------------------- CPacket.c: ServerHello

\* Bounds of the ServerHello inputs: records before the ServerHello record,
\* session-ID length, extensions in the block.
MaxPre == 2
MaxSid == 2
MaxExts == 2

HANDSHAKE == 22
SERVER_HELLO == 2
KEY_SHARE == 51
X25519 == 29
X25519_KEY_LEN == 32
\* handshake type (1) + length (3) + version (2) + random (32)
SH_FIXED == 38

\* while (offset + 5 < len)
RecordHeaderAvailable(offset, len) == offset + 5 < len

\* if (offset + recordLen > len) break;
RecordFits(offset, recordLen, len) == offset + recordLen <= len

\* A skip that forgets the header was already stepped over.
NextRecord_header_twice(offset, recordLen) == offset + 5 + recordLen

\* offset += recordLen; continue;
NextRecord(offset, recordLen) == offset + recordLen

\* A parser that lets records of any content type through.
StopsAtRecord_never(contentType) == FALSE

\* if (contentType != 0x16) break;
StopsAtRecord(contentType) == contentType # HANDSHAKE

\* A skip of the length byte alone, not of the session ID it announces.
SessionIdEnd_length_only(shOffset, sessionIdLen) == shOffset + 1

\* shOffset += 1 + sessionIdLen;
SessionIdEnd(shOffset, sessionIdLen) == shOffset + 1 + sessionIdLen

\* An extensions length nobody checks.
ExtBlockFits_unchecked(extEnd, len) == TRUE

\* if (extEnd > len) return 0;
ExtBlockFits(extEnd, len) == extEnd <= len

\* Key bytes copied without asking whether they are there.
KeyFits_unchecked(shOffset, len) == TRUE

\* if (shOffset + 32 > len) return 0;
KeyFits(shOffset, len) == shOffset + X25519_KEY_LEN <= len

\* if (group == 0x001d && keyLen == 32)
IsX25519Share(group, keyLen) == group = X25519 /\ keyLen = X25519_KEY_LEN

\* What the call leaves behind: the return value, *outCipherSuite, outKeyShare
\* and the greatest index of data it read.
HelloResult(rc, cs, key, hi) == [rc |-> rc, cs |-> cs, key |-> key, hi |-> hi]

\* The extension walk, while (shOffset + 4 <= extEnd), and the break after it.
RECURSIVE ExtWalk(_, _, _, _, _, _)
ExtWalk(d, len, shOffset, extEnd, cs, hi) ==
    IF shOffset + 4 <= extEnd
    THEN LET extType    == U16(d, shOffset)
             extDataLen == U16(d, shOffset + 2)
             hi1        == Touch(hi, shOffset, 4)
             o1         == shOffset + 4
         IN  IF extType = KEY_SHARE
             THEN IF o1 + 4 > len THEN HelloResult(0, cs, Unset, hi1)
                  ELSE LET group  == U16(d, o1)
                           keyLen == U16(d, o1 + 2)
                           hi2    == Touch(hi1, o1, 4)
                           o2     == o1 + 4
                       IN  IF IsX25519Share(group, keyLen)
                           THEN IF ~KeyFits(o2, len) THEN HelloResult(0, cs, Unset, hi2)
                                ELSE HelloResult(1, cs, Slice(d, o2, X25519_KEY_LEN),
                                                 Touch(hi2, o2, X25519_KEY_LEN))
                           ELSE ExtWalk(d, len, o2 + extDataLen, extEnd, cs, hi2)
             ELSE ExtWalk(d, len, o1 + extDataLen, extEnd, cs, hi1)
    ELSE HelloResult(0, cs, Unset, hi)

\* The body of the record loop once data[offset] is 0x02.
ServerHelloBody(d, len, offset, hi) ==
    LET shOffset     == offset + SH_FIXED
        sessionIdLen == At(d, shOffset)
        hi1          == Touch(hi, shOffset, 1)
        sh1          == SessionIdEnd(shOffset, sessionIdLen)
        cs           == U16(d, sh1)
        hi2          == Touch(hi1, sh1, 2)
        sh2          == sh1 + 3
        extLen       == U16(d, sh2)
        hi3          == Touch(hi2, sh2, 2)
        sh3          == sh2 + 2
        extEnd       == sh3 + extLen
    IN  IF shOffset >= len THEN HelloResult(0, Unset, Unset, hi)
        ELSE IF sh1 + 2 > len THEN HelloResult(0, Unset, Unset, hi1)
        ELSE IF sh2 + 2 > len THEN HelloResult(0, cs, Unset, hi2)
        ELSE IF ~ExtBlockFits(extEnd, len) THEN HelloResult(0, cs, Unset, hi3)
        ELSE ExtWalk(d, len, sh3, extEnd, cs, hi3)

\* The record loop, while (offset + 5 < len), and the return 0 after it.
RECURSIVE RecordWalk(_, _, _, _)
RecordWalk(d, len, offset, hi) ==
    IF RecordHeaderAvailable(offset, len)
    THEN LET contentType == At(d, offset)
             hi1         == Touch(hi, offset, 1)
             recordLen   == U16(d, offset + 3)
             hi2         == Touch(hi1, offset + 3, 2)
             o           == offset + 5
             hi3         == Touch(hi2, o, 1)
         IN  IF StopsAtRecord(contentType) THEN HelloResult(0, Unset, Unset, hi1)
             ELSE IF ~RecordFits(o, recordLen, len) THEN HelloResult(0, Unset, Unset, hi2)
             ELSE IF At(d, o) # SERVER_HELLO
                  THEN RecordWalk(d, len, NextRecord(o, recordLen), hi3)
             ELSE ServerHelloBody(d, len, o, hi3)
    ELSE HelloResult(0, Unset, Unset, hi)

parse_server_hello(d) == RecordWalk(d, Len(d), 0, -1)

\* The inputs: TLS records as a server would frame them, then damaged.

TlsRecord(type, body, lenAdj) == <<type, 3, 3>> \o U16BE(Len(body) + lenAdj) \o body

\* Records that may precede or follow the ServerHello record.
PlainRecord(kind) ==
    CASE kind = "app" -> TlsRecord(23, <<170, 187>>, 0)
      [] kind = "ccs" -> TlsRecord(20, <<1>>, 0)
      [] kind = "hs"  -> TlsRecord(HANDSHAKE, <<11, 0, 0, 0>>, 0)
      [] kind = "hs0" -> TlsRecord(HANDSHAKE, <<>>, 0)

KeyOf(kind) ==
    CASE kind = "x"     -> Ramp(100, 32)
      [] kind = "xbig"  -> Ramp(60, 32)
      [] kind = "decoy" -> Ramp(200, 32)
      [] kind = "std"   -> Ramp(150, 32)

\* One extension: type(2) length(2) data.
Extension(kind) ==
    CASE kind = "sv"    -> <<0, 43, 0, 2, 3, 4>>
      [] kind = "x"     -> <<0, 51, 0, 36, 0, 29, 0, 32>> \o KeyOf("x")
      [] kind = "std"   -> <<0, 51, 0, 36, 0, 29, 0, 32>> \o KeyOf("std")
      [] kind = "p"     -> <<0, 51, 0, 8, 0, 23, 0, 4, 9, 9, 9, 9>>
      [] kind = "x31"   -> <<0, 51, 0, 35, 0, 29, 0, 31>> \o Ramp(100, 31)
      [] kind = "xbig"  -> <<0, 51, 255, 255, 0, 29, 0, 32>> \o KeyOf("xbig")
      [] kind = "decoy" -> <<0, 44, 0, 40, 0, 51, 0, 36, 0, 29, 0, 32>> \o KeyOf("decoy")

ExtensionBlock(exts) == Concat([k \in 1..Len(exts) |-> Extension(exts[k])])

\* A ServerHello handshake message; sidAdj and extAdj are added to the true
\* session-ID and extensions lengths where the message declares them.
HelloMessage(sid, sidAdj, cs, exts, extAdj) ==
    LET block == ExtensionBlock(exts)
        rest  == <<3, 3>> \o Ramp(1, 32) \o <<sid + sidAdj>> \o Fill(170, sid) \o U16BE(cs)
                 \o <<0>> \o U16BE(Max(0, Len(block) + extAdj)) \o block
    IN  <<SERVER_HELLO, 0>> \o U16BE(Len(rest)) \o rest

OtherRecord(kind) ==
    IF kind = "sh" THEN TlsRecord(HANDSHAKE, HelloMessage(0, 0, 4865, <<"std">>, 0), 0)
    ELSE PlainRecord(kind)

Records(kinds) == Concat([k \in 1..Len(kinds) |-> OtherRecord(kinds[k])])

HelloStream(s) ==
    Records(s.pre)
    \o TlsRecord(HANDSHAKE, HelloMessage(s.sid, s.sidAdj, s.cs, s.exts, s.extAdj), s.recAdj)
    \o Records(s.post)

HelloBytes(s) == SubSeq(HelloStream(s), 1, Len(HelloStream(s)) - s.drop)

PreKinds == {"app", "ccs", "hs", "hs0"}
ExtKinds == {"sv", "x", "p", "x31", "xbig", "decoy"}
Suites == {4865, 4866, 4867}
ExtAdjs == {-36, -8, 5}

HelloShape(pre, sid, sidAdj, cs, exts, extAdj, recAdj, post, drop) ==
    [pre |-> pre, sid |-> sid, sidAdj |-> sidAdj, cs |-> cs, exts |-> exts,
     extAdj |-> extAdj, recAdj |-> recAdj, post |-> post, drop |-> drop]

\* Streams of whole records around a ServerHello.
StreamShapes ==
    {HelloShape(pre, 0, 0, cs, exts, 0, 0, post, 0) :
        pre \in SeqsUpTo(PreKinds, MaxPre), cs \in Suites,
        exts \in {<<"x">>, <<"sv", "x">>, <<"sv">>, <<"decoy">>}, post \in {<<>>, <<"sh">>}}

\* One ServerHello record with every extension block.
BlockShapes ==
    {HelloShape(<<>>, sid, 0, cs, exts, 0, 0, <<>>, 0) :
        sid \in 0..MaxSid, cs \in Suites, exts \in SeqsUpTo(ExtKinds, MaxExts)}

\* Declared lengths that disagree with the bytes that follow.
AdjustedShapes ==
    {HelloShape(<<>>, 0, 0, 4866, exts, extAdj, recAdj, post, 0) :
        exts \in SeqsUpTo(ExtKinds, MaxExts), extAdj \in ExtAdjs \cup {0},
        recAdj \in {0, 5}, post \in {<<>>, <<"app">>}}

\* Every proper prefix of a few streams.
TruncatedShapes ==
    UNION {{HelloShape(pre, sid, 0, 4866, exts, 0, 0, <<>>, drop) :
                drop \in 1..Len(HelloStream(HelloShape(pre, sid, 0, 4866, exts, 0, 0, <<>>, 0)))} :
            pre \in {<<>>, <<"hs">>}, sid \in {0, 1},
            exts \in {<<"x">>, <<"sv", "x">>, <<"p", "decoy">>, <<"xbig">>}}

\* A session-ID length that disagrees with the session ID that follows.
SessionIdShapes ==
    {HelloShape(<<>>, sid, sidAdj, 4866, exts, 0, 0, post, 0) :
        sid \in 0..MaxSid, sidAdj \in {1, 200}, exts \in {<<"x">>, <<"sv", "x">>},
        post \in {<<>>, <<"app">>}}

\* A short record and a short extensions block, so that the buffer ends inside
\* the key share although both declared lengths fit.
ShortBlockShapes ==
    {HelloShape(<<>>, sid, 0, 4866, exts, -36, -45, <<>>, drop) :
        sid \in {0, 1}, exts \in {<<"x">>, <<"xbig">>}, drop \in 1..40}

HelloShapes ==
    StreamShapes \cup BlockShapes \cup AdjustedShapes \cup TruncatedShapes
        \cup SessionIdShapes \cup ShortBlockShapes

InitHello ==
    /\ fn = "parse_server_hello"
    /\ shape \in HelloShapes
    /\ data = HelloBytes(shape)
    /\ beyond \in BeyondBytes
    /\ ret = Pending
    /\ pc = "call"

CallParseServerHello ==
    /\ pc = "call"
    /\ fn = "parse_server_hello"
    /\ ret' = parse_server_hello(data)
    /\ pc' = "done"
    /\ UNCHANGED <<fn, shape, data, beyond>>

NextHello == CallParseServerHello

SpecHello == InitHello /\ [][NextHello]_vars

HelloDone == pc = "done" /\ fn = "parse_server_hello"

\* The stream is what a server framed: no length altered, nothing cut off.
Undamaged(s) == s.sidAdj = 0 /\ s.extAdj = 0 /\ s.recAdj = 0 /\ s.drop = 0

KeyShareKinds == {"x", "p", "x31", "xbig"}

\* The first key_share extension a walk in steps of 4 + length finds, or "none".
FirstKeyShare(exts) ==
    LET at == {k \in 1..Len(exts) : exts[k] \in KeyShareKinds}
    IN  IF at = {} THEN "none" ELSE exts[CHOOSE k \in at : \A j \in at : k <= j]

\* Every extension's declared length is the length of its data.
WellFormedBlock(exts) == \A k \in 1..Len(exts) : exts[k] # "xbig"

\* The ServerHello of the stream is well formed and offers an X25519 share.
ValidHello(s) ==
    Undamaged(s) /\ WellFormedBlock(s.exts) /\ FirstKeyShare(s.exts) = "x"

AllOf(kinds, S) == \A k \in 1..Len(kinds) : kinds[k] \in S

\* C2: on one complete Handshake record holding a well-formed ServerHello (any
\* session-ID length, any cipher suite, any non-key_share extensions first) whose
\* key_share is X25519 with a 32-byte key, parse_server_hello returns 1, stores the
\* ServerHello's cipher suite and copies exactly the 32 key bytes of that share.
C2_ServerHelloExtracted ==
    HelloDone /\ ValidHello(shape) /\ shape.pre = <<>> /\ shape.post = <<>> =>
        ret.rc = 1 /\ ret.cs = shape.cs /\ ret.key = KeyOf("x")

\* A ServerHello with a session ID, a suite other than 0x1301/0x1302 and two
\* extensions ahead of the key share has been parsed.
C2_Witness ==
    /\ HelloDone /\ ValidHello(shape) /\ shape.pre = <<>> /\ shape.post = <<>>
    /\ shape.sid = 2 /\ shape.cs = 4867 /\ shape.exts = <<"decoy", "x">>
    /\ ret.rc = 1

\* C3 as stated: non-Handshake records ahead of a valid ServerHello record are
\* skipped, and the call returns 1 with that ServerHello's suite and key share.
C3_AsStated ==
    HelloDone /\ ValidHello(shape) /\ shape.pre # <<>>
              /\ AllOf(shape.pre, {"app", "ccs"}) =>
        ret.rc = 1 /\ ret.cs = shape.cs /\ ret.key = KeyOf("x")

\* C3 amended: parse_server_hello does not skip a record whose content type is
\* not Handshake: when the input starts with a complete non-Handshake record, it
\* returns 0 and writes neither output, whatever follows, a valid ServerHello
\* record included.
C3_StopsAtOtherRecord ==
    HelloDone /\ Undamaged(shape) /\ shape.pre # <<>>
              /\ Head(shape.pre) \in {"app", "ccs"} =>
        ret.rc = 0 /\ ret.cs = Unset /\ ret.key = Unset

\* Two non-Handshake records came before a valid ServerHello record.
C3_Witness ==
    /\ HelloDone /\ ValidHello(shape)
    /\ shape.pre = <<"ccs", "app">>
    /\ ret.rc = 0

\* C4 as stated: when the first Handshake record does not start with 0x02 the
\* call returns 0, whatever later records hold.
C4_AsStated ==
    HelloDone /\ Undamaged(shape) /\ shape.pre # <<>>
              /\ Head(shape.pre) \in {"hs", "hs0"} =>
        ret.rc = 0

\* C4 amended: parse_server_hello considers only the first ServerHello record.
\* Handshake records that do not start with 0x02 are skipped: after one or more
\* of them, a complete record holding a valid ServerHello with an X25519 share
\* gives 1 with that ServerHello's suite and key share.  Once a record starting
\* with 0x02 is met nothing after it is considered: a first ServerHello record
\* without a key_share extension gives 0 even when a valid one follows.
C4_FirstServerHelloOnly ==
    /\ HelloDone /\ ValidHello(shape) /\ shape.pre # <<>>
                 /\ AllOf(shape.pre, {"hs", "hs0"}) =>
           ret.rc = 1 /\ ret.cs = shape.cs /\ ret.key = KeyOf("x")
    /\ HelloDone /\ Undamaged(shape) /\ AllOf(shape.pre, {"hs", "hs0"})
                 /\ FirstKeyShare(shape.exts) = "none" /\ shape.post = <<"sh">> =>
           ret.rc = 0 /\ ret.cs = shape.cs /\ ret.key = Unset

\* A Handshake record that is no ServerHello was skipped, and the ServerHello
\* after it was parsed.
C4_Witness ==
    /\ HelloDone /\ ValidHello(shape)
    /\ shape.pre = <<"hs", "hs">>
    /\ ret.rc = 1

\* C5: when the first key_share extension found by a walk of the extension
\* block in steps of 4 + declared length has a group other than 0x001d or a key
\* length other than 32, or the block has no key_share extension, the call
\* returns 0.
C5_OnlyX25519 ==
    HelloDone /\ Undamaged(shape) /\ shape.pre = <<>> /\ WellFormedBlock(shape.exts)
              /\ FirstKeyShare(shape.exts) \in {"p", "x31", "none"} =>
        ret.rc = 0

\* Where the fields of the ServerHello record lie in a stream whose earlier
\* records are all skipped Handshake records.
HelloAt(s) == Len(Records(s.pre))
SidAt(s) == HelloAt(s) + 5 + SH_FIXED
ExtLenAt(s, d) == SidAt(s) + 1 + At(d, SidAt(s)) + 3
DeclaredExtEnd(s, d) == ExtLenAt(s, d) + 2 + U16(d, ExtLenAt(s, d))

\* The extensions ahead of the first key_share extension.
RECURSIVE BeforeKeyShare(_)
BeforeKeyShare(exts) ==
    IF exts = <<>> \/ Head(exts) \in KeyShareKinds THEN <<>>
    ELSE <<Head(exts)>> \o BeforeKeyShare(Tail(exts))

\* Offset of the first key_share extension, by the layout of the stream.
KeyShareAt(s) ==
    SidAt(s) + 1 + s.sid + 3 + 2 + Len(ExtensionBlock(BeforeKeyShare(s.exts)))

\* The declared length read at offset i (w bytes wide) exceeds what follows it.
RecordLenExceeds(s, d) ==
    LET i == HelloAt(s) + 3 IN Len(d) >= i + 2 /\ U16(d, i) > Len(d) - (i + 2)
SessionIdExceeds(s, d) ==
    LET i == SidAt(s) IN Len(d) >= i + 1 /\ At(d, i) > Len(d) - (i + 1)
ExtLenExceeds(s, d) ==
    /\ Len(d) >= SidAt(s) + 1
    /\ Len(d) >= ExtLenAt(s, d) + 2
    /\ U16(d, ExtLenAt(s, d)) > Len(d) - (ExtLenAt(s, d) + 2)
KeyShareLenExceeds(s, d) ==
    LET i == KeyShareAt(s) + 2 IN Len(d) >= i + 2 /\ U16(d, i) > Len(d) - (i + 2)

\* The X25519 entry (4-byte header, 32 key bytes) of the first key_share
\* extension does not end by offset end.
KeyShareEntryPast(s, end) == KeyShareAt(s) + 4 + 4 + X25519_KEY_LEN > end

HelloFirst(s) == AllOf(s.pre, {"hs", "hs0"})
OffersX25519(s) == s.sidAdj = 0 /\ FirstKeyShare(s.exts) \in {"x", "xbig"}

\* C6 as stated (C6_AsStated, below): the call returns 0 and copies nothing when the record length,
\* the session-ID length, the extensions length or the key_share extension's data
\* length exceeds the bytes remaining after it, or when the key_share entry runs
\* past the end of the declared extensions block.
\* Some length the claim names is too large for what follows it.
C6_StatedCase(s, d) ==
    \/ RecordLenExceeds(s, d)
    \/ SessionIdExceeds(s, d)
    \/ ExtLenExceeds(s, d)
    \/ OffersX25519(s) /\ KeyShareLenExceeds(s, d)
    \/ /\ OffersX25519(s) /\ Len(d) >= SidAt(s) + 1 /\ Len(d) >= ExtLenAt(s, d) + 2
       /\ KeyShareEntryPast(s, DeclaredExtEnd(s, d))

C6_AsStated ==
    (HelloDone /\ HelloFirst(shape) /\ C6_StatedCase(shape, data))
        => (ret.rc = 0 /\ ret.key = Unset)

\* Some length the code checks is too large for what follows it.
C6_CheckedCase(s, d) ==
    \/ RecordLenExceeds(s, d)
    \/ SessionIdExceeds(s, d)
    \/ ExtLenExceeds(s, d)
    \/ OffersX25519(s) /\ KeyShareEntryPast(s, Len(d))

\* C6 amended: the call returns 0 and copies nothing into outKeyShare when the
\* record length, the session-ID length or the extensions-block length exceeds
\* the input bytes remaining after that length field, or when the 4-byte
\* key_share entry header or its 32 key bytes extend past the end of the input;
\* and whenever it returns 0 it has copied nothing into outKeyShare.  (The data
\* length of the key_share extension is not checked, and the entry is checked
\* against the input length, not against the declared extensions block.)
C6_LengthsChecked ==
    /\ (HelloDone /\ HelloFirst(shape) /\ C6_CheckedCase(shape, data))
           => (ret.rc = 0 /\ ret.key = Unset)
    /\ (HelloDone /\ ret.rc = 0) => ret.key = Unset

\* An extensions length larger than what follows it was refused although an
\* X25519 share lay in the buffer.
C6_Witness ==
    /\ HelloDone /\ shape.pre = <<>> /\ shape.drop = 0
    /\ shape.exts = <<"sv", "x">>
    /\ ExtLenExceeds(shape, data)
    /\ ~RecordLenExceeds(shape, data)
    /\ ret.rc = 0

\* ------------------------------------------- CPacket.c: DNS

\* Bounds of the DNS inputs: bytes after the header in a raw query, labels in
\* a built name, capacity of the domain buffer.
MaxDnsRaw == 4
MaxLabels == 2
MaxCap == 8

DNS_HEADER_LEN == 12

\* The null pointer, where a pointer to bytes is expected.
NULL == <<>>

\* A buffer of n bytes nobody has written.
Blank(n) == [k \in 1..n |-> Unset]

\* buf with bytes stored from index i on; a store outside buf is dropped here
\* and shows in the write mark kept beside the buffer.
Put(buf, i, bytes) ==
    [k \in 1..Len(buf) |->
        IF k - 1 >= i /\ k - 1 < i + Len(bytes) THEN bytes[k - i] ELSE buf[k]]

\* A label-length test that knows only the 0xC0 pointer pattern.
HasPointerBits_both_only(labelLen) == (labelLen \div 64) % 4 = 3

\* (labelLen & 0xC0) != 0
HasPointerBits(labelLen) == (labelLen \div 64) % 4 # 0

\* A capacity test that forgets the terminator's byte.
LabelFitsDomain_off_by_one(domainPos, labelLen, capacity) ==
    domainPos + labelLen <= capacity + 1

\* if (domainPos + labelLen > capacity) return 0;
LabelFitsDomain(domainPos, labelLen, capacity) == domainPos + labelLen <= capacity

\* if (offset + labelLen > len) return 0;
LabelInBuffer(offset, labelLen, len) == offset + labelLen <= len

\* The state of the QNAME loop of parse_dns_query_ext: failed is a return 0
\* from inside the loop.
NameWalk(failed, offset, domainPos, out, hi) ==
    [failed |-> failed, offset |-> offset, domainPos |-> domainPos, out |-> out, hi |-> hi]

\* while (offset < len) of parse_dns_query_ext.
RECURSIVE ParseLabels(_, _, _, _, _, _, _)
ParseLabels(d, len, offset, domainPos, capacity, out, hi) ==
    IF offset < len
    THEN LET labelLen == At(d, offset)
             hi1      == Touch(hi, offset, 1)
             o        == offset + 1
             dotted   == domainPos > 0
             pos      == IF dotted THEN domainPos + 1 ELSE domainPos
             out1     == IF dotted THEN Put(out, domainPos, <<46>>) ELSE out
         IN  IF labelLen = 0 THEN NameWalk(FALSE, o, domainPos, out, hi1)
             ELSE IF HasPointerBits(labelLen) THEN NameWalk(TRUE, o, domainPos, out, hi1)
             ELSE IF ~LabelInBuffer(o, labelLen, len)
                  THEN NameWalk(TRUE, o, domainPos, out, hi1)
             ELSE IF dotted /\ domainPos >= capacity
                  THEN NameWalk(TRUE, o, domainPos, out, hi1)
             ELSE IF ~LabelFitsDomain(pos, labelLen, capacity)
                  THEN NameWalk(TRUE, o, pos, out1, hi1)
             ELSE ParseLabels(d, len, o + labelLen, pos + labelLen, capacity,
                              Put(out1, pos, Slice(d, o, labelLen)),
                              Touch(hi1, o, labelLen))
    ELSE NameWalk(FALSE, offset, domainPos, out, hi)

\* A QTYPE test that also asks for the QCLASS.
QTypeAvailable_with_class(offset, len) == offset + 4 <= len

\* if (offset + 2 > len) return 0;
QTypeAvailable(offset, len) == offset + 2 <= len

\* What the call leaves behind: the return value, the bytes of outDomain,
\* *outDomainLen, *outQType and the greatest index of data it read.
QueryResult(rc, domain, domainLen, qtype, hi) ==
    [rc |-> rc, domain |-> domain, domainLen |-> domainLen, qtype |-> qtype, hi |-> hi]

\* cap is *outDomainLen on entry, the size of the outDomain buffer.
parse_dns_query_ext(d, cap) ==
    LET len     == Len(d)
        qdcount == U16(d, 4)
        w       == ParseLabels(d, len, DNS_HEADER_LEN, 0, cap - 1, Blank(cap), 5)
        named   == Put(w.out, w.domainPos, <<0>>)
    IN  IF len < DNS_HEADER_LEN \/ cap = 0 THEN QueryResult(0, Blank(cap), cap, Unset, -1)
        ELSE IF qdcount = 0 THEN QueryResult(0, Blank(cap), cap, Unset, 5)
        ELSE IF w.failed THEN QueryResult(0, w.out, cap, Unset, w.hi)
        ELSE IF w.domainPos = 0 THEN QueryResult(0, w.out, cap, Unset, w.hi)
        ELSE IF ~QTypeAvailable(w.offset, len) THEN QueryResult(0, named, w.domainPos, Unset, w.hi)
        ELSE QueryResult(1, named, w.domainPos, U16(d, w.offset), Touch(w.hi, w.offset, 2))

\* The offset after the QNAME walk of generate_dns_response, and the greatest
\* index read so far: while (offset < queryLen).
RECURSIVE SkipName(_, _, _, _)
SkipName(d, queryLen, offset, hi) ==
    IF offset < queryLen
    THEN LET labelLen == At(d, offset)
             hi1      == Touch(hi, offset, 1)
         IN  IF labelLen = 0 THEN [offset |-> offset + 1, hi |-> hi1]
             ELSE IF HasPointerBits(labelLen) THEN [offset |-> offset + 1, hi |-> hi1]
             ELSE SkipName(d, queryLen, offset + 1 + labelLen, hi1)
    ELSE [offset |-> offset, hi |-> hi]

\* What the call leaves behind: the return value, the bytes of outBuf, one past
\* the greatest index of outBuf written, questionEnd (once computed) and the
\* greatest index of queryData read.
ResponseResult(rc, out, wend, qend, hi) ==
    [rc |-> rc, out |-> out, wend |-> wend, qend |-> qend, hi |-> hi]

\* A question end that skips the QTYPE only.
QuestionEnd_qtype_only(offset) == offset + 2

\* Skip QTYPE(2) + QCLASS(2): offset += 4
QuestionEnd(offset) == offset + 4

\* A capacity test that is never negative.
OutBufHolds_anything(outBufSize, n) == n >= 0

\* if (outBufSize < responseLen) return 0;  if (outBufSize < questionEnd) return 0;
OutBufHolds(outBufSize, n) == outBufSize >= n

\* fakeIP is NULL or the address bytes it points at.
generate_dns_response(d, fakeIP, qtype, outBufSize) ==
    LET queryLen    == Len(d)
        walk        == SkipName(d, queryLen, DNS_HEADER_LEN, -1)
        questionEnd == QuestionEnd(walk.offset)
        rdLength    == IF fakeIP = NULL THEN 0
                       ELSE IF qtype = 1 THEN 4
                       ELSE IF qtype = 28 THEN 16 ELSE 0
        ansType     == IF rdLength = 4 THEN 1 ELSE IF rdLength = 16 THEN 28 ELSE 0
        responseLen == questionEnd + 12 + rdLength
        hiCopy      == Touch(walk.hi, 0, questionEnd)
        question    == Put(Blank(outBufSize), 0, Slice(d, 0, questionEnd))
        flagged     == Put(question, 2, <<133, 128>>)
        answered    == Put(Put(flagged, 6, <<0, 1, 0, 0, 0, 0>>), questionEnd,
                           <<192, 12>> \o U16BE(ansType) \o <<0, 1, 0, 0, 0, 1>>
                           \o U16BE(rdLength)
                           \o [k \in 1..rdLength |->
                                  IF k <= Len(fakeIP) THEN fakeIP[k] ELSE beyond])
        nodata      == Put(flagged, 6, <<0, 0, 0, 0, 0, 0>>)
    IN  IF queryLen < DNS_HEADER_LEN
        THEN ResponseResult(0, Blank(outBufSize), 0, Unset, -1)
        ELSE IF questionEnd > queryLen
        THEN ResponseResult(0, Blank(outBufSize), 0, Unset, walk.hi)
        ELSE IF rdLength > 0
        THEN IF ~OutBufHolds(outBufSize, responseLen)
             THEN ResponseResult(0, Blank(outBufSize), 0, questionEnd, walk.hi)
             ELSE ResponseResult(responseLen, answered, responseLen, questionEnd, hiCopy)
        ELSE IF ~OutBufHolds(outBufSize, questionEnd)
             THEN ResponseResult(0, Blank(outBufSize), 0, questionEnd, walk.hi)
             ELSE ResponseResult(questionEnd, nodata, Max(questionEnd, 12), questionEnd, hiCopy)

\* The inputs: DNS queries as a resolver would send them, raw byte strings
\* after a header, and headers cut short.

DnsHeader(qd) == <<18, 52, 1, 0>> \o U16BE(qd) \o <<7, 7, 7, 7, 7, 7>>

Label(kind) ==
    CASE kind = "a"   -> <<1, 97>>
      [] kind = "bc"  -> <<2, 98, 99>>
      [] kind = "www" -> <<3, 119, 119, 119>>

\* The characters of a label.
LabelText(kind) == Tail(Label(kind))

QName(labels) == Concat([k \in 1..Len(labels) |-> Label(labels[k])])

\* What ends the name: a zero-length label, a compression pointer, a length
\* byte with one top bit set, or nothing at all.
Terminator(term) ==
    CASE term = "zero"    -> <<0>>
      [] term = "pointer" -> <<192, 12>>
      [] term = "bit6"    -> <<64>>
      [] term = "none"    -> <<>>

\* QTYPE, QCLASS and one byte more, cut to the first `after` bytes.
AfterName(qt, after) == SubSeq(U16BE(qt) \o <<0, 1, 0>>, 1, after)

QueryBytes(q) ==
    CASE q.kind = "raw"   -> DnsHeader(1) \o q.tail
      [] q.kind = "name"  -> DnsHeader(1) \o QName(q.labels) \o Terminator(q.term)
                                 \o AfterName(q.qt, q.after)
      [] q.kind = "short" -> SubSeq(DnsHeader(1), 1, q.n)
      [] q.kind = "noq"   -> DnsHeader(0) \o <<1, 97, 0, 0, 1, 0, 1>>

DnsBytes == {0, 1, 2, 192}
LabelKinds == {"a", "bc", "www"}
Terminators == {"zero", "pointer", "bit6", "none"}

RawQueries == [kind : {"raw"}, tail : SeqsUpTo(DnsBytes, MaxDnsRaw)]
NameQueries(qts) ==
    [kind : {"name"}, labels : SeqsUpTo(LabelKinds, MaxLabels), term : Terminators,
     qt : qts, after : 0..5]
ShortQueries == [kind : {"short"}, n : 0..(DNS_HEADER_LEN - 1)] \cup {[kind |-> "noq"]}

IP4 == <<93, 184, 216, 34>>
IP16 == Ramp(32, 16)

\* fakeIP and qtype as a caller pairs them.
ResponseArgs == {<<NULL, 1>>, <<IP4, 1>>, <<IP16, 28>>, <<IP4, 5>>}
OutSizes == {0, 20, 33, 64}

InitDns ==
    /\ \/ /\ fn = "parse_dns_query_ext"
          /\ shape \in [q : RawQueries \cup NameQueries({1, 261}) \cup ShortQueries,
                        cap : 0..MaxCap]
       \/ /\ fn = "generate_dns_response"
          /\ \E a \in ResponseArgs :
                shape \in [q : RawQueries \cup NameQueries({1}) \cup ShortQueries,
                           fakeIP : {a[1]}, qtype : {a[2]}, outBufSize : OutSizes]
    /\ data = QueryBytes(shape.q)
    /\ beyond \in BeyondBytes
    /\ ret = Pending
    /\ pc = "call"

CallParseDnsQueryExt ==
    /\ pc = "call"
    /\ fn = "parse_dns_query_ext"
    /\ ret' = parse_dns_query_ext(data, shape.cap)
    /\ pc' = "done"
    /\ UNCHANGED <<fn, shape, data, beyond>>

CallGenerateDnsResponse ==
    /\ pc = "call"
    /\ fn = "generate_dns_response"
    /\ ret' = generate_dns_response(data, shape.fakeIP, shape.qtype, shape.outBufSize)
    /\ pc' = "done"
    /\ UNCHANGED <<fn, shape, data, beyond>>

NextDns == CallParseDnsQueryExt \/ CallGenerateDnsResponse

SpecDns == InitDns /\ [][NextDns]_vars

QueryDone == pc = "done" /\ fn = "parse_dns_query_ext"
ResponseDone == pc = "done" /\ fn = "generate_dns_response"

\* Offset of the byte that ends the name of a built query.
TerminatorAt(q) == DNS_HEADER_LEN + Len(QName(q.labels))

\* C9: when the QNAME walk of generate_dns_response meets a compression pointer
\* at offset p, the pointer counts as two bytes: the question section ends at
\* p + 2 + 4, and that many bytes of the query are copied as header + question.
C9_PointerIsTwoBytes ==
    (ResponseDone /\ shape.q.kind = "name" /\ shape.q.term = "pointer"
        /\ Len(data) >= TerminatorAt(shape.q) + 6 /\ shape.outBufSize = 64)
    => /\ ret.qend = TerminatorAt(shape.q) + 6
       /\ ret.rc >= ret.qend
       /\ SubSeq(ret.out, 13, ret.qend) = SubSeq(data, 13, TerminatorAt(shape.q) + 6)

\* The reference reading of a QNAME whose first length byte is at offset i:
\* its labels, the offset after its terminator, and how it ended ("ok" at a
\* zero-length label, "pointer" at a length byte with a top bit set, "overrun"
\* at a label longer than the rest of the buffer, "open" at the end of the buffer).
RECURSIVE RefName(_, _)
RefName(d, i) ==
    IF i >= Len(d) THEN [status |-> "open", labels |-> <<>>, end |-> i]
    ELSE IF d[i + 1] = 0 THEN [status |-> "ok", labels |-> <<>>, end |-> i + 1]
    ELSE IF d[i + 1] >= 64 THEN [status |-> "pointer", labels |-> <<>>, end |-> i + 1]
    ELSE IF i + 1 + d[i + 1] > Len(d)
         THEN [status |-> "overrun", labels |-> <<>>, end |-> i + 1]
    ELSE LET rest == RefName(d, i + 1 + d[i + 1])
         IN  [status |-> rest.status,
              labels |-> <<SubSeq(d, i + 2, i + 1 + d[i + 1])>> \o rest.labels,
              end    |-> rest.end]

\* Labels joined by '.'.
RECURSIVE Dotted(_)
Dotted(labels) ==
    IF labels = <<>> THEN <<>>
    ELSE IF Len(labels) = 1 THEN Head(labels)
    ELSE Head(labels) \o <<46>> \o Dotted(Tail(labels))

\* The reference parser's verdict on a query and a capacity.
RefRejects(d, cap) ==
    \/ Len(d) < 12
    \/ d[5] * 256 + d[6] = 0
    \/ cap = 0
    \/ RefName(d, 12).status # "ok"
    \/ RefName(d, 12).labels = <<>>
    \/ Len(Dotted(RefName(d, 12).labels)) > cap - 1
    \/ RefName(d, 12).end + 2 > Len(d)

\* The call succeeded with this name and this query type.
Parsed(name, qtype) ==
    /\ ret.rc = 1
    /\ ret.domainLen = Len(name)
    /\ ret.domainLen <= shape.cap - 1
    /\ SubSeq(ret.domain, 1, Len(name)) = name
    /\ ret.domain[Len(name) + 1] = 0
    /\ ret.qtype = qtype

\* C10: parse_dns_query_ext agrees with the reference parser on every input and
\* capacity.  It returns 0 when len < 12, QDCOUNT = 0, the capacity is 0, a label
\* length has a top bit set, a label runs past the buffer, the name is not ended
\* by a zero-length label, no label was read, the dotted name is longer than
\* capacity - 1, or fewer than 2 bytes follow the terminator; otherwise it
\* returns 1 with outDomain the labels joined by '.', NUL-terminated,
\* *outDomainLen its length and outQType the big-endian 16 bits after the
\* terminator.
C10_ParseAgreesWithReference ==
    QueryDone =>
        /\ RefRejects(data, shape.cap) => ret.rc = 0
        /\ ~RefRejects(data, shape.cap) =>
               LET name == RefName(data, 12) IN
               Parsed(Dotted(name.labels),
                      data[name.end + 1] * 256 + data[name.end + 2])
        /\ (shape.q.kind = "name" /\ shape.q.term = "zero" /\ shape.q.labels # <<>>
              /\ shape.q.after >= 2
              /\ Len(Dotted([k \in 1..Len(shape.q.labels) |-> LabelText(shape.q.labels[k])]))
                     <= shape.cap - 1) =>
               Parsed(Dotted([k \in 1..Len(shape.q.labels) |-> LabelText(shape.q.labels[k])]),
                      shape.q.qt)
        /\ (shape.q.kind = "name" /\ shape.q.term \in {"pointer", "bit6"}) => ret.rc = 0

\* A two-label name that fills the domain buffer to its last byte was parsed.
C10_Witness ==
    /\ QueryDone
    /\ shape.q.kind = "name" /\ shape.q.labels = <<"bc", "www">> /\ shape.q.qt = 261
    /\ ret.rc = 1
    /\ ret.domainLen = shape.cap - 1
    /\ ret.domain = <<98, 99, 46, 119, 119, 119, 0>>
    /\ ret.qtype = 261

\* Where the question section of a query ends, read from its bytes: four bytes
\* after a zero-length label, or after the two bytes of a compression pointer;
\* Unset when the name ends in neither.
QuestionSectionEnd(d) ==
    LET name == RefName(d, DNS_HEADER_LEN) IN
    IF name.status = "ok" THEN name.end + 4
    ELSE IF name.status = "pointer" /\ d[name.end] >= 192 THEN name.end + 1 + 4
    ELSE Unset

\* RDLENGTH of the answer the arguments ask for, 0 when they ask for none.
AnswerLen(fakeIP, qtype) ==
    IF fakeIP # NULL /\ qtype = 1 THEN 4
    ELSE IF fakeIP # NULL /\ qtype = 28 THEN 16
    ELSE 0

\* The response in ret of length n keeps ID, QDCOUNT and the question section
\* ending at qe, has flags 0x8580 and NSCOUNT = ARCOUNT = 0, and after the
\* question one answer of rd address bytes, or none when rd = 0.
ResponseIs(qe, rd) ==
    /\ ret.rc = (IF rd > 0 THEN qe + 12 + rd ELSE qe)
    /\ SubSeq(ret.out, 1, 2) = SubSeq(data, 1, 2)
    /\ SubSeq(ret.out, 3, 4) = <<133, 128>>
    /\ SubSeq(ret.out, 5, 6) = SubSeq(data, 5, 6)
    /\ SubSeq(ret.out, 7, 8) = (IF rd > 0 THEN <<0, 1>> ELSE <<0, 0>>)
    /\ SubSeq(ret.out, 9, 12) = <<0, 0, 0, 0>>
    /\ SubSeq(ret.out, 13, qe) = SubSeq(data, 13, qe)
    /\ rd > 0 =>
          SubSeq(ret.out, qe + 1, qe + 12 + rd)
              = <<192, 12>> \o U16BE(shape.qtype) \o <<0, 1>> \o <<0, 0, 0, 1>>
                    \o U16BE(rd) \o shape.fakeIP

\* C11: for every query that generate_dns_response accepts, the response keeps
\* the query's ID, QDCOUNT and question section byte for byte, has flags 0x8580
\* and NSCOUNT = ARCOUNT = 0; with fakeIP present and qtype 1 or 28, ANCOUNT = 1
\* and one answer follows the question (C0 0C, TYPE = qtype, CLASS = 1, TTL = 1,
\* RDLENGTH = 4 or 16, RDATA = the address) and the returned length is
\* questionEnd + 12 + RDLENGTH; otherwise ANCOUNT = 0 and the returned length is
\* questionEnd.
C11_ResponseContent ==
    (ResponseDone /\ ret.rc > 0
        /\ QuestionSectionEnd(data) # Unset /\ QuestionSectionEnd(data) <= Len(data))
    => ResponseIs(QuestionSectionEnd(data), AnswerLen(shape.fakeIP, shape.qtype))

\* The same, for the queries whose name ends in a zero-length label.
ResponseContentOfPlainNames ==
    (ResponseDone /\ ret.rc > 0 /\ RefName(data, DNS_HEADER_LEN).status = "ok")
    => ResponseIs(QuestionSectionEnd(data), AnswerLen(shape.fakeIP, shape.qtype))

\* The indices of outBuf that hold a written byte.
Written(out) == {k \in 1..Len(out) : out[k] # Unset}

\* C12: generate_dns_response writes only within the capacity it is given and
\* fails cleanly: when it returns 0 no byte of outBuf has been written, and when
\* it returns n > 0 it has written exactly the indices 0..n-1, n <= outBufSize.
C12_WritesWithinCapacity ==
    ResponseDone =>
        /\ ret.rc >= 0
        /\ ret.rc <= shape.outBufSize
        /\ ret.wend = ret.rc
        /\ Written(ret.out) = 1..ret.rc

\* An A answer was refused, nothing written, by a buffer that holds the question
\* but not the answer.
C12_Witness ==
    /\ ResponseDone
    /\ shape.fakeIP = IP4 /\ shape.qtype = 1
    /\ ret.qend # Unset
    /\ shape.outBufSize >= ret.qend
    /\ shape.outBufSize < ret.qend + 16
    /\ ret.rc = 0
    /\ Written(ret.out) = {}

\* A capacity for outDomain and outBuf that no query of the model exhausts.
Roomy == CHOOSE n \in OutSizes : \A m \in OutSizes : m <= n

\* The offset after the QNAME terminator where parse_dns_query_ext reads the
\* QTYPE of d.
ParsedNameEnd(d) ==
    ParseLabels(d, Len(d), DNS_HEADER_LEN, 0, Roomy - 1, Blank(Roomy), 5).offset

\* parse_dns_query_ext accepts the query just answered.
ParseAccepts == parse_dns_query_ext(data, Roomy).rc = 1

\* C15 as stated: every query that parse_dns_query_ext accepts is accepted by
\* generate_dns_response when the output buffer is large enough, with the
\* question section ending 4 bytes after the QNAME terminator.
C15_AsStated ==
    (ResponseDone /\ shape.outBufSize = Roomy /\ ParseAccepts)
    => /\ ret.rc > 0
       /\ ret.qend = ParsedNameEnd(data) + 4

\* C15: a query that parse_dns_query_ext accepts and that holds at least 4
\* bytes after the QNAME terminator is accepted by generate_dns_response when
\* the output buffer is large enough, and the question section it computes ends
\* exactly 4 bytes after the terminator at which parse_dns_query_ext read the
\* QTYPE; a query that parse_dns_query_ext accepts with only 2 or 3 bytes after
\* the terminator is refused by generate_dns_response.
C15_RoutinesAgree ==
    (ResponseDone /\ shape.outBufSize = Roomy /\ ParseAccepts)
    => IF Len(data) >= ParsedNameEnd(data) + 4
       THEN /\ ret.rc > 0
            /\ ret.qend = ParsedNameEnd(data) + 4
       ELSE ret.rc = 0

\* A query for bc.www that both routines accept was answered.
C15_Witness ==
    /\ ResponseDone /\ shape.outBufSize = Roomy /\ ParseAccepts
    /\ shape.q.kind = "name" /\ shape.q.labels = <<"bc", "www">>
    /\ ret.rc > 0
    /\ ret.qend = TerminatorAt(shape.q) + 1 + 4
    /\ ret.qend = ParsedNameEnd(data) + 4

\* The name of d was read whole into a buffer of cap bytes, and fewer than 2
\* bytes follow it.
NameReadWithoutQType(d, cap) ==
    /\ Len(d) >= DNS_HEADER_LEN
    /\ cap > 0
    /\ d[5] * 256 + d[6] # 0
    /\ RefName(d, DNS_HEADER_LEN).status \in {"ok", "open"}
    /\ RefName(d, DNS_HEADER_LEN).labels # <<>>
    /\ Len(Dotted(RefName(d, DNS_HEADER_LEN).labels)) <= cap - 1
    /\ RefName(d, DNS_HEADER_LEN).end + 2 > Len(d)

\* C16 as stated: when parse_dns_query_ext returns 0, *outDomainLen still
\* holds the capacity the caller passed in.
C16_AsStated == (QueryDone /\ ret.rc = 0) => ret.domainLen = shape.cap

\* C16: when parse_dns_query_ext returns 0, *outDomainLen still holds the
\* capacity the caller passed in, except on the last failure path (the name was
\* read and fewer than 2 bytes follow it), where it already holds the length of
\* the domain; *outQType is written only on the path that returns 1.
C16_DomainLenOnFailure ==
    (QueryDone /\ ret.rc = 0)
    => /\ ret.qtype = Unset
       /\ IF NameReadWithoutQType(data, shape.cap)
          THEN /\ ret.domainLen = Len(Dotted(RefName(data, DNS_HEADER_LEN).labels))
               /\ ret.domain[ret.domainLen + 1] = 0
          ELSE ret.domainLen = shape.cap

\* A query for www cut inside its QTYPE was refused with *outDomainLen = 3.
C16_Witness ==
    /\ QueryDone
    /\ shape.q.kind = "name" /\ shape.q.labels = <<"www">> /\ shape.q.term = "zero"
    /\ shape.q.after = 1
    /\ shape.cap > 4
    /\ ret.rc = 0
    /\ ret.domainLen = 3
    /\ ret.qtype = Unset

\* ------------------------------------------------------------ the parsers

InitParsers == InitHello \/ InitUnwrap \/ InitDns

NextParsers == NextHello \/ NextUnwrap \/ NextDns

SpecParsers == InitParsers /\ [][NextParsers]_vars

\* C7: parse_server_hello, parse_dns_query_ext, generate_dns_response and
\* find_tls13_content_end read their input only at indices below the supplied
\* length, whatever the input: empty, truncated, or declaring lengths that run
\* past the buffer.
C7_ReadsInBounds ==
    (pc = "done" /\ fn \in {"parse_server_hello", "parse_dns_query_ext",
                            "generate_dns_response", "find_tls13_content_end"})
    => ret.hi < Len(data)

\* A buffer that ends inside the key share, though the record and extensions
\* lengths fit, was refused after its last byte but one was read.
C7_Witness ==
    /\ HelloDone /\ HelloFirst(shape) /\ OffersX25519(shape)
    /\ KeyShareEntryPast(shape, Len(data))
    /\ ~RecordLenExceeds(shape, data) /\ ~ExtLenExceeds(shape, data)
    /\ ret.rc = 0
    /\ ret.hi >= KeyShareAt(shape) + 7
    /\ ret.hi < Len(data)

\* ------------------------------------------------------------ GeoIP lookup
\* CGeoIP.c: geoip_lookup over a blob "GEO1" + count (U32 BE) + count entries
\* of startIP (U32 BE), endIP (U32 BE), countryCode (U16 BE).  A uint32_t is
\* kept as its two 16-bit halves [h, l], compared as unsigned 32-bit values are.

MaxEntries == 3

GEO_HEADER_LEN == 8
GEO_ENTRY_LEN == 10
GEO_MAGIC == <<71, 69, 79, 49>>

\* (uint32_t)d[i] << 24 | (uint32_t)d[i+1] << 16 | (uint32_t)d[i+2] << 8 | d[i+3]
U32(d, i) == [h |-> U16(d, i), l |-> U16(d, i + 2)]

\* a <= b and a < b on uint32_t.
Le32(a, b) == a.h < b.h \/ (a.h = b.h /\ a.l <= b.l)
Lt32(a, b) == a.h < b.h \/ (a.h = b.h /\ a.l < b.l)

\* A size that fits 16 bits, as a uint32_t.
Small32(n) == [h |-> 0, l |-> n]

\* db_len < 8 + (size_t)count * 10, for db_len >= 8: count exceeds the number
\* of whole entries after the header.
TableTruncated(db_len, count) ==
    Lt32(Small32((db_len - GEO_HEADER_LEN) \div GEO_ENTRY_LEN), count)

\* (int)count of a count that passed the length check, hence below 2^16.
AsInt(count) == count.l

\* inet_pton(AF_INET, ip_str, &addr) on a dotted quad given as its decimal
\* fields: the four address bytes in network order, or failure.
inet_pton(ip_str) ==
    IF Len(ip_str) = 4 /\ \A k \in 1..4 : ip_str[k] \in 0..255
    THEN [ok |-> TRUE, s_addr |-> ip_str]
    ELSE [ok |-> FALSE, s_addr |-> <<>>]

\* ntohl of the address bytes: the host-order value.
ntohl(s_addr) == U32(s_addr, 0)

\* A comparison that lets an address equal to startIP fall to the entry below.
StartsAtOrBefore_strict(startIP, ip) == Lt32(startIP, ip)

\* if (startIP <= ip)
StartsAtOrBefore(startIP, ip) == Le32(startIP, ip)

\* while (lo <= hi): the index of the last entry probed with startIP <= ip,
\* -1 when there is none.
RECURSIVE BinarySearch(_, _, _, _, _)
BinarySearch(db, ip, lo, hi, best) ==
    IF lo <= hi
    THEN LET mid     == lo + (hi - lo) \div 2
             startIP == U32(db, GEO_HEADER_LEN + mid * GEO_ENTRY_LEN)
         IN  IF StartsAtOrBefore(startIP, ip)
             THEN BinarySearch(db, ip, mid + 1, hi, mid)
             ELSE BinarySearch(db, ip, lo, mid - 1, best)
    ELSE best

\* ip_str is NULL or the decimal fields of the string it points at.
geoip_lookup(db, ip_str) ==
    LET db_len == Len(db)
        count  == U32(db, 4)
        addr   == inet_pton(ip_str)
        ip     == ntohl(addr.s_addr)
        best   == BinarySearch(db, ip, 0, AsInt(count) - 1, 0 - 1)
        e      == GEO_HEADER_LEN + best * GEO_ENTRY_LEN
    IN  IF db_len < GEO_HEADER_LEN \/ ip_str = NULL THEN 0
        ELSE IF SubSeq(db, 1, 4) # GEO_MAGIC THEN 0
        ELSE IF TableTruncated(db_len, count) THEN 0
        ELSE IF ~addr.ok THEN 0
        ELSE IF best < 0 THEN 0
        ELSE IF Lt32(U32(db, e + 4), ip) THEN 0
        ELSE U16(db, e + 8)

\* The inputs: tables of ranges between dotted quads, the k-th entry carrying
\* the k-th country code (AA, BB, CC, ...), serialised as the database file is,
\* then damaged.

CountryCode(k) == U16(<<65, 65>>, 0) + 257 * (k - 1)

GeoEntry(range, k) == range.s \o range.e \o U16BE(CountryCode(k))

GeoBlob(g) ==
    LET whole == g.magic \o g.count
                     \o Concat([k \in 1..Len(g.table) |-> GeoEntry(g.table[k], k)])
    IN  SubSeq(whole, 1, Max(0, Len(whole) - g.drop))

\* The dotted quad 0.0.0.n.
Low(n) == <<0, 0, 0, n>>

\* a <= b on dotted quads, most significant byte first.
QuadLe(a, b) ==
    \E k \in 1..5 : /\ \A j \in 1..(k - 1) : a[j] = b[j]
                    /\ (k = 5 \/ a[k] < b[k])

\* Addresses in each byte of the 32 bits, and their neighbours.
IpPoints == {Low(5), <<0, 0, 3, 0>>, <<0, 1, 0, 0>>, <<255, 255, 255, 255>>}
ProbeIps == IpPoints \cup {Low(0), Low(6), <<0, 0, 255, 255>>, <<128, 0, 0, 0>>}
Ranges == {r \in [s : IpPoints, e : IpPoints] : QuadLe(r.s, r.e)}

ExampleTable ==
    <<[s |-> Low(1), e |-> Low(10)], [s |-> Low(11), e |-> Low(20)],
      [s |-> Low(100), e |-> Low(200)]>>
ExampleIps == {Low(n) : n \in {1, 10, 11, 20, 21, 100, 200, 201}}

BadMagics == {<<71, 69, 79, 50>>, <<103, 69, 79, 49>>, <<71, 0, 79, 49>>, <<71, 69, 48, 49>>}
BadCounts == {Low(4), Low(5), <<0, 0, 1, 3>>, <<0, 1, 0, 3>>, <<128, 0, 0, 3>>,
              <<255, 255, 255, 255>>}
BadIpStrings == {NULL, <<1, 2, 3>>, <<1, 2, 3, 256>>, <<1, 2, 3, 4, 5>>}

TableShapes ==
    {[table |-> t, magic |-> GEO_MAGIC, count |-> Low(Len(t)), drop |-> 0, ip |-> ip] :
        t \in SeqsUpTo(Ranges, MaxEntries), ip \in ProbeIps}
ExampleShapes ==
    [table : {ExampleTable}, magic : {GEO_MAGIC}, count : {Low(k) : k \in 0..3},
     drop : {0}, ip : ExampleIps]
DamagedShapes ==
    [table : {ExampleTable}, magic : BadMagics, count : {Low(3)}, drop : {0}, ip : ExampleIps]
    \cup [table : {ExampleTable}, magic : {GEO_MAGIC}, count : BadCounts, drop : {0},
          ip : ExampleIps]
    \cup [table : {ExampleTable}, magic : {GEO_MAGIC}, count : {Low(3)},
          drop : {1, 9, 10, 29, 30, 31, 34, 38}, ip : ExampleIps]
    \cup [table : {ExampleTable}, magic : {GEO_MAGIC}, count : {Low(3)}, drop : {0},
          ip : BadIpStrings]
GeoShapes == TableShapes \cup ExampleShapes \cup DamagedShapes

InitGeo ==
    /\ fn = "geoip_lookup"
    /\ shape \in GeoShapes
    /\ data = GeoBlob(shape)
    /\ beyond \in BeyondBytes
    /\ ret = Pending
    /\ pc = "call"

CallGeoipLookup ==
    /\ pc = "call"
    /\ fn = "geoip_lookup"
    /\ ret' = [code |-> geoip_lookup(data, shape.ip)]
    /\ pc' = "done"
    /\ UNCHANGED <<fn, shape, data, beyond>>

NextGeo == CallGeoipLookup

SpecGeo == InitGeo /\ [][NextGeo]_vars

GeoDone == pc = "done" /\ fn = "geoip_lookup"

\* The blob has the magic and holds the entries it declares.
BlobValid(g) ==
    /\ g.magic = GEO_MAGIC
    /\ g.drop = 0
    /\ \E n \in 0..Len(g.table) : g.count = Low(n)

\* The entries the blob declares, when it holds them all.
DeclaredTable(g) == SubSeq(g.table, 1, g.count[4])

\* The string is an IPv4 dotted quad.
IsQuad(ip) == ip \in Seq(0..255) /\ Len(ip) = 4

SortedTable(t) == \A i, j \in 1..Len(t) : i < j => QuadLe(t[i].s, t[j].s)
NonOverlapping(t) ==
    \A i, j \in 1..Len(t) :
        i # j => (~QuadLe(t[j].s, t[i].e) \/ ~QuadLe(t[i].s, t[j].e))

\* The entries of t that contain ip.
Containing(t, ip) == {k \in 1..Len(t) : QuadLe(t[k].s, ip) /\ QuadLe(ip, t[k].e)}

\* The reference lookup in a sorted table of non-overlapping ranges.
RefLookup(t, ip) ==
    IF Containing(t, ip) = {} THEN 0
    ELSE CountryCode(CHOOSE k \in Containing(t, ip) : TRUE)

\* What the example table gives at the example addresses.
ExampleAnswer(ip) ==
    CASE ip \in {Low(1), Low(10)}    -> CountryCode(1)
      [] ip \in {Low(11), Low(20)}   -> CountryCode(2)
      [] ip \in {Low(100), Low(200)} -> CountryCode(3)
      [] OTHER                       -> 0

\* C13: geoip_lookup equals the reference lookup for every blob and IPv4
\* address.  It returns 0 when the magic is not "GEO1" or the blob is shorter
\* than 8 + count*10 bytes; otherwise, in a table sorted ascending by startIP
\* with non-overlapping ranges, the search ends with the country code of the
\* one entry with startIP <= ip <= endIP, or 0 when no entry contains ip; the
\* table [(1,10,AA),(11,20,BB),(100,200,CC)] gives AA,AA,BB,BB,0,CC,CC,0 at
\* 1,10,11,20,21,100,200,201.
C13_LookupAgreesWithReference ==
    GeoDone =>
        /\ ~BlobValid(shape) => ret.code = 0
        /\ ~IsQuad(shape.ip) => ret.code = 0
        /\ (BlobValid(shape) /\ IsQuad(shape.ip)
              /\ SortedTable(DeclaredTable(shape))
              /\ NonOverlapping(DeclaredTable(shape)))
               => /\ Cardinality(Containing(DeclaredTable(shape), shape.ip)) <= 1
                  /\ ret.code = RefLookup(DeclaredTable(shape), shape.ip)
        /\ (BlobValid(shape) /\ shape.table = ExampleTable /\ shape.count = Low(3)
              /\ IsQuad(shape.ip))
               => ret.code = ExampleAnswer(shape.ip)

\* A three-entry table was searched for the last address of its middle entry.
C13_Witness ==
    /\ GeoDone
    /\ BlobValid(shape) /\ shape.count = Low(3)
    /\ SortedTable(shape.table) /\ NonOverlapping(shape.table)
    /\ shape.ip = shape.table[2].e
    /\ shape.table[2].s # shape.table[2].e
    /\ ret.code = CountryCode(2)

\* ------------------------------------------------------------ HKDF-Expand
\* CTLSKeyDerivation.c: hkdf_expand.  HMAC is a fixed function nobody
\* computes here: a digest is the term <<alg, key, message>> and its k-th byte
\* the pair <<digest, k>>.  A message is what the CCHmacUpdate calls fed in
\* order: the first t_len bytes of t (or nothing), info, the counter byte.

MaxOkmLen == 100

\* CCHmacInit(&ctx, alg, prk, prk_len); CCHmacUpdate ...; CCHmacFinal(&ctx, t)
CCHmac(alg, key, message) == <<alg, key, message>>

\* Byte k of a digest.
DigestByte(t, k) == <<t, k>>

\* if (t_len > 0) CCHmacUpdate(&ctx, t, t_len); CCHmacUpdate(&ctx, info, info_len);
\* CCHmacUpdate(&ctx, &counter, 1);
HkdfMessage(t, t_len, info, counter) ==
    <<IF t_len > 0 THEN <<t, t_len>> ELSE <<>>, info, counter>>

\* A copy length that forgets the truncation of the last block.
ToCopy_whole_block(hash_len, offset, length) == hash_len

\* int to_copy = hash_len; if (offset + to_copy > length) to_copy = length - offset;
ToCopy(hash_len, offset, length) ==
    IF offset + hash_len > length THEN length - offset ELSE hash_len

\* while (offset < length): what the loop leaves behind, the bytes stored
\* through out (in the order of their offsets), offset and counter.
RECURSIVE ExpandLoop(_, _, _, _, _, _, _, _, _, _)
ExpandLoop(alg, hash_len, prk, info, length, t, t_len, offset, counter, out) ==
    IF offset < length
    THEN LET t1      == CCHmac(alg, prk, HkdfMessage(t, t_len, info, counter))
             to_copy == ToCopy(hash_len, offset, length)
         IN  ExpandLoop(alg, hash_len, prk, info, length, t1, hash_len,
                        offset + to_copy, (counter + 1) % 256,
                        out \o [k \in 1..to_copy |-> DigestByte(t1, k)])
    ELSE [out |-> out, offset |-> offset, counter |-> counter]

hkdf_expand(alg, hash_len, prk, info, length) ==
    ExpandLoop(alg, hash_len, prk, info, length, <<>>, 0, 0, 1, <<>>)

\* The inputs: the algorithm and hash length of a suite, a pseudorandom key of
\* that length, an info string, and every output length up to MaxOkmLen.

HkdfInfos == {<<>>, <<0, 32, 9>>}

InitHkdf ==
    /\ fn = "hkdf_expand"
    /\ \E cs \in Suites :
          shape \in [alg      : {get_suite_params(cs).alg},
                     hash_len : {get_suite_params(cs).hash_len},
                     prk      : {Fill(7, get_suite_params(cs).hash_len),
                                 Ramp(1, get_suite_params(cs).hash_len)},
                     info     : HkdfInfos,
                     length   : 0..MaxOkmLen]
    /\ data = <<>>
    /\ beyond = 0
    /\ ret = Pending
    /\ pc = "call"

CallHkdfExpand ==
    /\ pc = "call"
    /\ fn = "hkdf_expand"
    /\ ret' = hkdf_expand(shape.alg, shape.hash_len, shape.prk, shape.info, shape.length)
    /\ pc' = "done"
    /\ UNCHANGED <<fn, shape, data, beyond>>

NextHkdf == CallHkdfExpand

SpecHkdf == InitHkdf /\ [][NextHkdf]_vars

HkdfDone == pc = "done" /\ fn = "hkdf_expand"

\* T(i) = HMAC(prk, T(i-1) || info || i), T(0) empty.
RECURSIVE RefT(_, _, _, _, _)
RefT(alg, hash_len, prk, info, i) ==
    CCHmac(alg, prk,
           <<IF i = 1 THEN <<>> ELSE <<RefT(alg, hash_len, prk, info, i - 1), hash_len>>,
             info, i>>)

\* Byte j (from 1) of T(1) || T(2) || ...
RefOkmByte(g, j) ==
    DigestByte(RefT(g.alg, g.hash_len, g.prk, g.info, ((j - 1) \div g.hash_len) + 1),
               ((j - 1) % g.hash_len) + 1)

\* C14: hkdf_expand is prefix-consistent.  For a fixed algorithm, prk and info
\* and lengths 0 <= L' < L, the loop ends having written exactly L (resp. L')
\* bytes, the L'-byte output is the first L' bytes of the L-byte output, and
\* the output is T(1) || T(2) || ... cut to its length, with
\* T(i) = HMAC(prk, T(i-1) || info || i), T(0) empty, the counter starting at 1.
C14_PrefixConsistent ==
    HkdfDone =>
        /\ ret.offset = shape.length
        /\ Len(ret.out) = shape.length
        /\ \A j \in 1..shape.length : ret.out[j] = RefOkmByte(shape, j)
        /\ \A shorter \in 0..(shape.length - 1) :
              LET okm == hkdf_expand(shape.alg, shape.hash_len, shape.prk,
                                     shape.info, shorter)
              IN  /\ okm.offset = shorter
                  /\ okm.out = SubSeq(ret.out, 1, shorter)

\* An output that ends inside its third block was expanded.
C14_Witness ==
    /\ HkdfDone
    /\ shape.length > 2 * shape.hash_len
    /\ shape.length < 3 * shape.hash_len
    /\ Len(ret.out) = shape.length
    /\ ret.counter = 4
    /\ ret.out[shape.length] = RefOkmByte(shape, shape.length)
    /\ ret.out[shape.length][1] # ret.out[1][1]

\* ------------------------------------------------------------ everything

Init == InitSuite \/ InitUnwrap \/ InitHello \/ InitDns \/ InitGeo \/ InitHkdf

Next == NextSuite \/ NextUnwrap \/ NextHello \/ NextDns \/ NextGeo \/ NextHkdf

Spec == Init /\ [][Next]_vars

====
